---- MODULE Spec2Model ----
(***************************************************************************)
(* Model of the payments engine ledger core: Account (account.rs) and      *)
(* TransactionManager::parse_entry (transaction_manager.rs).               *)
(*                                                                         *)
(* Decimal values are modelled as integers counted in the smallest unit,   *)
(* confined to -DecimalMax..DecimalMax; checked_add/checked_sub return     *)
(* None outside that range, as rust_decimal does at Decimal::MAX/MIN.      *)
(* Option<T> is a sequence of length 0 (None) or 1 (Some).                 *)
(* A HashMap is a function whose DOMAIN is the set of keys it holds.       *)
(* Each step is one parse_entry call; op and result record the call, and   *)
(* settled, chargedback and snap are history variables that the code does  *)
(* not keep (the registry stores neither the client nor the outcome).      *)
(***************************************************************************)
EXTENDS Integers, Sequences, FiniteSets, TLC

\* ---------------------------------------------------------------- bounds
\* transaction ids 1..NumTx (u32 in the source)
NumTx == 2
\* number of records of the input stream
MaxRecords == 5
\* stand-in for Decimal::MAX (Decimal::MIN is its negation)
DecimalMax == 3

\* client ids (u16 in the source): two clients, so that a record may name a
\* transaction another client created
Clients == {1, 2}
TxIds == 1..NumTx

None == << >>
Some(x) == << x >>

\* amounts an input record may carry: absent, negative, positive
Amounts == {None, Some(0 - 1), Some(1), Some(2)}

\* ------------------------------------------------------------- variables
VARIABLES
    pc,            \* main's position: "loop", "returned_err" or "written"
    steps,         \* number of records parse_entry has been called with
    accounts,      \* TransactionManager.accounts : HashMap<u16, Account>
    transactions,  \* TransactionManager.transactions : HashMap<u32, TransactionRecord>
    op,            \* the type of the record of the last parse_entry call
    result,        \* what the last parse_entry call returned: "Ok" or the error's name
    settled,       \* history: tx id -> client of the Deposit/Withdrawal that returned Ok
    chargedback,   \* history: tx id -> client whose account a Chargeback record acted on
    alone,         \* client -> the accounts and registry of a TransactionManager that
                   \* is given the records of that client only
    snap           \* history: when the last record was an accepted Dispute that opened a
                   \* dispute, its client, tx and that client's balances before it

vars == << pc, steps, accounts, transactions, op, result, settled, chargedback, snap, alone >>

\* ------------------------------------------------------------ Decimal
\* faulty variant: the sum wraps around instead of being refused
checked_add_wrapping(a, b) ==
    Some(((a + b + DecimalMax) % (2 * DecimalMax + 1)) - DecimalMax)

checked_add(a, b) ==
    IF a + b > DecimalMax \/ a + b < 0 - DecimalMax THEN None ELSE Some(a + b)

checked_sub(a, b) ==
    IF a - b > DecimalMax \/ a - b < 0 - DecimalMax THEN None ELSE Some(a - b)

\* faulty variant: no amount is taken for negative
is_sign_negative_never(a) == FALSE

is_sign_negative(a) == a < 0

\* ------------------------------------------------------------ Account
Account_new(client_id) ==
    [client_id |-> client_id, available |-> 0, held |-> 0, locked |-> FALSE]

lock(acc) == [acc EXCEPT !.locked = TRUE]

Done(acc) == [acc |-> acc, res |-> "Ok"]
Fail(acc, e) == [acc |-> acc, res |-> e]

\* faulty variant: deposit without the lock check
deposit_ignores_lock(acc, amount) ==
    LET s == checked_add(acc.available, amount) IN
    IF s = None THEN Fail(acc, "FundsOverflow")
    ELSE Done([acc EXCEPT !.available = s[1]])

deposit(acc, amount) ==
    IF acc.locked THEN Fail(acc, "AccountLocked")
    ELSE LET s == checked_add(acc.available, amount) IN
         IF s = None THEN Fail(acc, "FundsOverflow")
         ELSE Done([acc EXCEPT !.available = s[1]])

\* faulty variant: withdrawal without the funds check
withdrawal_overdraws(acc, amount) ==
    IF acc.locked THEN Fail(acc, "AccountLocked")
    ELSE LET s == checked_sub(acc.available, amount) IN
         IF s = None THEN Fail(acc, "FundsOverflow")
         ELSE Done([acc EXCEPT !.available = s[1]])

withdrawal(acc, amount) ==
    IF acc.locked THEN Fail(acc, "AccountLocked")
    ELSE IF acc.available >= amount
         THEN LET s == checked_sub(acc.available, amount) IN
              IF s = None THEN Fail(acc, "FundsOverflow")
              ELSE Done([acc EXCEPT !.available = s[1]])
         ELSE Fail(acc, "InsufficientFunds")

\* faulty variant: dispute without the funds check
dispute_unchecked(acc, amount) ==
    LET s == checked_sub(acc.available, amount) IN
    IF s = None THEN Fail(acc, "InsufficientFunds")
    ELSE LET a1 == [acc EXCEPT !.available = s[1]]
             h == checked_add(a1.held, amount) IN
         IF h = None THEN Fail(a1, "FundsOverflow")
         ELSE Done([a1 EXCEPT !.held = h[1]])

\* faulty variant: dispute refused on a locked account
dispute_gated_by_lock(acc, amount) ==
    IF acc.locked THEN Fail(acc, "AccountLocked")
    ELSE IF acc.available >= amount
    THEN LET s == checked_sub(acc.available, amount) IN
         IF s = None THEN Fail(acc, "InsufficientFunds")
         ELSE LET a1 == [acc EXCEPT !.available = s[1]]
                  h == checked_add(a1.held, amount) IN
              IF h = None THEN Fail(a1, "FundsOverflow")
              ELSE Done([a1 EXCEPT !.held = h[1]])
    ELSE Fail(acc, "InsufficientFunds")

\* the two checked operations run in turn: when the second one fails the
\* first one's assignment to available has already happened
dispute(acc, amount) ==
    IF acc.available >= amount
    THEN LET s == checked_sub(acc.available, amount) IN
         IF s = None THEN Fail(acc, "InsufficientFunds")
         ELSE LET a1 == [acc EXCEPT !.available = s[1]]
                  h == checked_add(a1.held, amount) IN
              IF h = None THEN Fail(a1, "FundsOverflow")
              ELSE Done([a1 EXCEPT !.held = h[1]])
    ELSE Fail(acc, "InsufficientFunds")

\* faulty variant: resolve releases everything that is held
resolve_releases_all_held(acc, amount) ==
    LET s == checked_add(acc.available, acc.held) IN
    IF s = None THEN Fail(acc, "FundsOverflow")
    ELSE Done([acc EXCEPT !.available = s[1], !.held = 0])

resolve(acc, amount) ==
    LET s == checked_add(acc.available, amount) IN
    IF s = None THEN Fail(acc, "FundsOverflow")
    ELSE LET a1 == [acc EXCEPT !.available = s[1]]
             h == checked_sub(a1.held, amount) IN
         IF h = None THEN Fail(a1, "FundsOverflow")
         ELSE Done([a1 EXCEPT !.held = h[1]])

\* faulty variant: the account is locked before the subtraction is checked
chargeback_locks_first(acc, amount) ==
    LET h == checked_sub(acc.held, amount) IN
    IF h = None THEN Fail(lock(acc), "FundsOverflow")
    ELSE Done(lock([acc EXCEPT !.held = h[1]]))

chargeback(acc, amount) ==
    LET h == checked_sub(acc.held, amount) IN
    IF h = None THEN Fail(acc, "FundsOverflow")
    ELSE Done(lock([acc EXCEPT !.held = h[1]]))

\* faulty variant: the withdrawal chargeback locks as the deposit chargeback does
chargeback_withdrawal_locks(acc, amount) ==
    LET s == checked_add(acc.available, amount) IN
    IF s = None THEN Fail(acc, "FundsOverflow")
    ELSE Done(lock([acc EXCEPT !.available = s[1]]))

\* faulty variant: the withdrawal chargeback takes the amount out of held
chargeback_withdrawal_from_held(acc, amount) ==
    LET h == checked_sub(acc.held, amount) IN
    IF h = None THEN Fail(acc, "FundsOverflow")
    ELSE Done([acc EXCEPT !.held = h[1]])

chargeback_withdrawal(acc, amount) ==
    LET s == checked_add(acc.available, amount) IN
    IF s = None THEN Fail(acc, "FundsOverflow")
    ELSE Done([acc EXCEPT !.available = s[1]])

\* ------------------------------------------------- TransactionManager
\* faulty variant: an entry is registered as already under dispute
TransactionRecord_new_disputed(operation_type, amount) ==
    [operation_type |-> operation_type, amount |-> amount,
     under_dispute |-> TRUE, already_disputed |-> FALSE]

TransactionRecord_new(operation_type, amount) ==
    [operation_type |-> operation_type, amount |-> amount,
     under_dispute |-> FALSE, already_disputed |-> FALSE]

\* HashMap::insert
Insert(m, k, v) == [x \in DOMAIN m \cup {k} |-> IF x = k THEN v ELSE m[x]]

\* faulty variant: insert instead of or_insert_with, a fresh account on every call
get_account_fresh(accs, cliend_id) == Insert(accs, cliend_id, Account_new(cliend_id))

\* accounts.entry(id).or_insert_with(|| Account::new(id)): the map after the call
get_account(accs, cliend_id) ==
    IF cliend_id \in DOMAIN accs THEN accs
    ELSE Insert(accs, cliend_id, Account_new(cliend_id))

\* get_account(client).op(amount): the map and the operation's result
OnAccount(accs, client, r) == [accs |-> Insert(accs, client, r.acc), res |-> r.res]

\* main's loop hands the next record of the input to parse_entry
NextRecord ==
    /\ pc = "loop"
    /\ steps < MaxRecords
    /\ steps' = steps + 1
    /\ pc' = pc
    /\ alone' = alone

\* faulty variant: the id check left out
contains_key_unchecked(m, k) == FALSE

\* HashMap::contains_key
contains_key(m, k) == k \in DOMAIN m

\* the balances of a client, those of a new account when it has none yet
Balances(accs, client) ==
    LET acc == IF client \in DOMAIN accs THEN accs[client] ELSE Account_new(client) IN
    [available |-> acc.available, held |-> acc.held]

Init ==
    /\ pc = "loop"
    /\ steps = 0
    /\ accounts = << >>
    /\ transactions = << >>
    /\ op = "None"
    /\ result = "Ok"
    /\ settled = << >>
    /\ chargedback = << >>
    /\ snap = None
    /\ alone = [c \in Clients |-> [accs |-> << >>, txs |-> << >>]]

\* parse_entry, OperationType::Deposit arm
Deposit(client, tx, amount) ==
    /\ NextRecord
    /\ op' = "Deposit"
    /\ UNCHANGED chargedback
    /\ snap' = None
    /\ IF contains_key(transactions, tx)
       THEN /\ result' = "TransactionIdAlreadyUsed"
            /\ UNCHANGED << accounts, transactions, settled >>
       ELSE IF amount = None
       THEN /\ result' = "MissingAmount"
            /\ UNCHANGED << accounts, transactions, settled >>
       ELSE IF is_sign_negative(amount[1])
       THEN /\ result' = "NegativeAmount"
            /\ UNCHANGED << accounts, transactions, settled >>
       ELSE LET accs == get_account(accounts, client)
                r == OnAccount(accs, client, deposit(accs[client], amount[1])) IN
            /\ transactions' = Insert(transactions, tx, TransactionRecord_new("Deposit", amount))
            /\ accounts' = r.accs
            /\ result' = r.res
            /\ settled' = IF r.res = "Ok" THEN Insert(settled, tx, client) ELSE settled

\* parse_entry, OperationType::Withdrawal arm
Withdrawal(client, tx, amount) ==
    /\ NextRecord
    /\ op' = "Withdrawal"
    /\ UNCHANGED chargedback
    /\ snap' = None
    /\ IF contains_key(transactions, tx)
       THEN /\ result' = "TransactionIdAlreadyUsed"
            /\ UNCHANGED << accounts, transactions, settled >>
       ELSE IF amount = None
       THEN /\ result' = "MissingAmount"
            /\ UNCHANGED << accounts, transactions, settled >>
       ELSE IF is_sign_negative(amount[1])
       THEN /\ result' = "NegativeAmount"
            /\ UNCHANGED << accounts, transactions, settled >>
       ELSE LET accs == get_account(accounts, client)
                r == OnAccount(accs, client, withdrawal(accs[client], amount[1])) IN
            /\ transactions' = Insert(transactions, tx, TransactionRecord_new("Withdrawal", amount))
            /\ accounts' = r.accs
            /\ result' = r.res
            /\ settled' = IF r.res = "Ok" THEN Insert(settled, tx, client) ELSE settled

\* parse_entry, OperationType::Chargeback arm
Chargeback(client, tx) ==
    /\ NextRecord
    /\ op' = "Chargeback"
    /\ UNCHANGED settled
    /\ snap' = None
    /\ IF tx \in DOMAIN transactions
          /\ transactions[tx].under_dispute
          /\ transactions[tx].amount # None
       THEN LET transaction == transactions[tx]
                amount == transaction.amount[1]
                accs == get_account(accounts, client)
                r == IF transaction.operation_type = "Deposit"
                     THEN OnAccount(accs, client, chargeback(accs[client], amount))
                     ELSE IF transaction.operation_type = "Withdrawal"
                     THEN OnAccount(accs, client, chargeback_withdrawal(accs[client], amount))
                     ELSE [accs |-> accounts, res |-> "Ok"] IN
            /\ transactions' = [transactions EXCEPT ![tx].under_dispute = FALSE]
            /\ accounts' = r.accs
            /\ result' = r.res
            /\ chargedback' = IF r.res = "Ok" THEN Insert(chargedback, tx, client)
                              ELSE chargedback
       ELSE /\ result' = "Ok"
            /\ UNCHANGED << accounts, transactions, chargedback >>

\* faulty variant: the latch reads under_dispute instead of already_disputed
may_dispute_when_closed(transaction) == ~transaction.under_dispute

\* the Dispute arm's latch: a transaction is taken into dispute once
may_dispute(transaction) == ~transaction.already_disputed

\* parse_entry, OperationType::Dispute arm
Dispute(client, tx) ==
    /\ NextRecord
    /\ op' = "Dispute"
    /\ UNCHANGED << settled, chargedback >>
    /\ IF tx \in DOMAIN transactions /\ may_dispute(transactions[tx])
       THEN LET transaction == transactions[tx]
                accs == get_account(accounts, client)
                r == IF transaction.operation_type = "Deposit" /\ transaction.amount # None
                     THEN OnAccount(accs, client, dispute(accs[client], transaction.amount[1]))
                     ELSE [accs |-> accounts, res |-> "Ok"] IN
            /\ transactions' = [transactions EXCEPT ![tx].under_dispute = TRUE,
                                                    ![tx].already_disputed = TRUE]
            /\ accounts' = r.accs
            /\ result' = r.res
            /\ snap' = IF r.res = "Ok"
                       THEN Some([client |-> client, tx |-> tx,
                                  before |-> Balances(accounts, client)])
                       ELSE None
       ELSE /\ result' = "Ok"
            /\ UNCHANGED << accounts, transactions >>
            /\ snap' = None

\* parse_entry, OperationType::Resolve arm
Resolve(client, tx) ==
    /\ NextRecord
    /\ op' = "Resolve"
    /\ UNCHANGED << settled, chargedback >>
    /\ snap' = None
    /\ IF tx \notin DOMAIN transactions
       THEN /\ result' = "Ok"
            /\ UNCHANGED << accounts, transactions >>
       ELSE IF ~transactions[tx].under_dispute
       THEN /\ result' = "ResolveOnNonDisputeOperation"
            /\ UNCHANGED << accounts, transactions >>
       ELSE LET transaction == transactions[tx]
                accs == get_account(accounts, client)
                r == IF transaction.amount # None
                     THEN OnAccount(accs, client, resolve(accs[client], transaction.amount[1]))
                     ELSE [accs |-> accounts, res |-> "Ok"] IN
            /\ transactions' = [transactions EXCEPT ![tx].under_dispute = FALSE]
            /\ accounts' = r.accs
            /\ result' = r.res

Next ==
    \/ \E c \in Clients, tx \in TxIds, a \in Amounts : Deposit(c, tx, a)
    \/ \E c \in Clients, tx \in TxIds, a \in Amounts : Withdrawal(c, tx, a)
    \/ \E c \in Clients, tx \in TxIds : Chargeback(c, tx)
    \/ \E c \in Clients, tx \in TxIds : Dispute(c, tx)
    \/ \E c \in Clients, tx \in TxIds : Resolve(c, tx)

Spec == Init /\ [][Next]_vars
\* ------------------------------------------------------------ the ledger's books
Available(c) == accounts[c].available
Held(c) == accounts[c].held
Total(c) == accounts[c].available + accounts[c].held

RECURSIVE SumAmounts(_)
\* the sum of the recorded amounts of the registry entries S
SumAmounts(S) ==
    IF S = {} THEN 0
    ELSE LET t == CHOOSE x \in S : TRUE IN
         transactions[t].amount[1] + SumAmounts(S \ {t})

\* the accepted records of the given type that client c sent
SettledOf(c, type) ==
    {tx \in DOMAIN settled : settled[tx] = c /\ transactions[tx].operation_type = type}

\* the Deposit entries a Chargeback record removed from c's held funds
RemovedFrom(c) ==
    {tx \in DOMAIN chargedback :
        chargedback[tx] = c /\ transactions[tx].operation_type = "Deposit"}

\* settled deposits, minus settled withdrawals not reversed by a chargeback,
\* minus what deposit chargebacks removed
Books(c) ==
    SumAmounts(SettledOf(c, "Deposit"))
    - SumAmounts(SettledOf(c, "Withdrawal") \ DOMAIN chargedback)
    - SumAmounts(RemovedFrom(c))

IsErr(r) == r # "Ok"

\* ------------------------------------------------------------------ claims

\* C1: whenever parse_entry returns an error, the ledger after the call equals
\* the ledger before it: same accounts with the same balances and lock, same
\* registry entries with the same flags.
C1_ErrorLeavesLedgerUnchanged ==
    [][IsErr(result') => accounts' = accounts /\ transactions' = transactions]_vars

\* C2: in every reachable state, every account's available + held equals its
\* client's settled deposits minus settled withdrawals (one reversed by a
\* chargeback no longer counting) minus the amounts deposit chargebacks removed.
C2_TotalEqualsBooks ==
    \A c \in DOMAIN accounts : Total(c) = Books(c)

\* C3: in every reachable state every account has available >= 0 and held >= 0.
C3_BalancesNonNegative ==
    \A c \in DOMAIN accounts : Available(c) >= 0 /\ Held(c) >= 0

\* C4: a registry entry exists for a transaction id only if a Deposit or
\* Withdrawal record with that id was applied successfully.
C4_RegistryOnlyAccepted ==
    \A tx \in DOMAIN transactions : tx \in DOMAIN settled

\* C5: a transaction's under_dispute or already_disputed flag becomes true only in
\* a call that returns Ok (an accepted Dispute); a failed Dispute leaves both false.
C5_FlagsOnlyByAcceptedDispute ==
    [][\A tx \in DOMAIN transactions :
          (  (~transactions[tx].under_dispute /\ transactions'[tx].under_dispute)
          \/ (~transactions[tx].already_disputed /\ transactions'[tx].already_disputed))
          => result' = "Ok"]_vars

\* C6: a Dispute accepted for a recorded, not yet disputed transaction of the
\* record's own client, followed immediately by a Resolve for it, leaves that
\* client's available and held equal to their values before the Dispute.
C6_DisputeResolveRoundTrip ==
    [][(/\ snap # None
        /\ snap[1].tx \in DOMAIN settled
        /\ settled[snap[1].tx] = snap[1].client
        /\ Resolve(snap[1].client, snap[1].tx))
       => Balances(accounts', snap[1].client) = snap[1].before]_vars

\* C7: once a transaction id was used by an accepted Deposit or Withdrawal, every
\* later Deposit or Withdrawal record with that id, of any client, is rejected
\* with TransactionIdAlreadyUsed and changes neither the accounts nor the registry.
\* (Stated by contraposition: a Deposit or Withdrawal step that is not such a
\* rejection is the step of no record carrying an id of an accepted one.)
C7_UsedIdRejected ==
    [][(/\ op' \in {"Deposit", "Withdrawal"}
        /\ ~(/\ result' = "TransactionIdAlreadyUsed"
             /\ accounts' = accounts
             /\ transactions' = transactions))
       => \A tx \in DOMAIN settled : \A c \in Clients, a \in Amounts :
             ~Deposit(c, tx, a) /\ ~Withdrawal(c, tx, a)]_vars

\* C7 witness: a Deposit or Withdrawal was just rejected for its id while every
\* registered id comes from an accepted record.
C7_Witness ==
    /\ op \in {"Deposit", "Withdrawal"}
    /\ result = "TransactionIdAlreadyUsed"
    /\ DOMAIN transactions = DOMAIN settled

\* C8: a transaction is taken into dispute at most once and settled at most once:
\* a Dispute record for a transaction whose already_disputed flag is set returns
\* Ok and changes nothing, a Chargeback record for a charged-back transaction
\* moves no funds, and no record sets under_dispute again once it was disputed.
C8_DisputedAndSettledOnce ==
    [][\A tx \in DOMAIN transactions :
          /\ transactions[tx].already_disputed
             => /\ transactions'[tx].already_disputed
                /\ transactions'[tx].under_dispute => transactions[tx].under_dispute
                /\ \A c \in Clients :
                      Dispute(c, tx) => /\ result' = "Ok"
                                        /\ accounts' = accounts
                                        /\ transactions' = transactions
          /\ tx \in DOMAIN chargedback
             => \A c \in Clients :
                   Chargeback(c, tx) => /\ accounts' = accounts
                                        /\ transactions' = transactions]_vars

\* C8 witness: every transaction id is registered and already disputed, and the
\* last record was a Dispute that returned Ok without opening a dispute: it named
\* a transaction whose already_disputed flag was set.
C8_Witness ==
    /\ op = "Dispute"
    /\ result = "Ok"
    /\ snap = None
    /\ \A tx \in TxIds : tx \in DOMAIN transactions /\ transactions[tx].already_disputed

\* C9: once an account is locked it stays locked (and stays in the ledger).
C9_LockIsPermanent ==
    [][\A c \in DOMAIN accounts :
          accounts[c].locked => c \in DOMAIN accounts' /\ accounts'[c].locked]_vars

\* C9 witness: a locked account that a later Deposit or Withdrawal was sent to.
C9_Witness ==
    /\ result = "AccountLocked"
    /\ \E c \in DOMAIN accounts : accounts[c].locked

\* a Chargeback record was applied, on c's account, to a Deposit entry under dispute
DepositChargedBack(c) == RemovedFrom(c) # {}

\* C10: after a Chargeback record is applied to a Deposit entry under dispute the
\* account it acted on is locked, and from then on every Deposit or Withdrawal
\* record of that client is rejected and leaves its available and held unchanged.
C10_DepositChargebackLocks ==
    [][/\ (op' = "Chargeback" /\ result' = "Ok")
          => \A c \in Clients, tx \in DOMAIN transactions :
                (/\ transactions[tx].under_dispute
                 /\ transactions[tx].operation_type = "Deposit"
                 /\ Chargeback(c, tx))
                => c \in DOMAIN accounts' /\ accounts'[c].locked
       /\ (chargedback # << >> /\ op' \in {"Deposit", "Withdrawal"})
          => \A c \in Clients :
                DepositChargedBack(c)
                => /\ c \in DOMAIN accounts /\ accounts[c].locked
                   /\ \A tx \in TxIds, a \in Amounts :
                         (Deposit(c, tx, a) \/ Withdrawal(c, tx, a))
                         => /\ IsErr(result')
                            /\ Balances(accounts', c) = Balances(accounts, c)]_vars

\* C10 witness: a client whose deposit was charged back has just had a Deposit
\* or Withdrawal rejected on a fresh transaction id.
C10_Witness ==
    /\ op \in {"Deposit", "Withdrawal"}
    /\ result = "AccountLocked"
    /\ \E c \in DOMAIN accounts : DepositChargedBack(c) /\ accounts[c].locked

\* whether client c has an account and it is locked
Locked(accs, c) == c \in DOMAIN accs /\ accs[c].locked

\* the registry entries of the given type that are under dispute
DisputedEntries(type) ==
    {tx \in DOMAIN transactions : /\ transactions[tx].under_dispute
                                  /\ transactions[tx].operation_type = type
                                  /\ transactions[tx].amount # None}

\* C11: a Chargeback record applied to a Withdrawal entry under dispute adds
\* exactly the entry's amount to the available balance of the record's client,
\* leaves held and locked as they were (an unlocked account stays unlocked) and
\* returns Ok; when the checked addition is refused it returns FundsOverflow
\* and the balances stay as they were. No other account changes.
C11_WithdrawalChargebackCredits ==
    [][op' = "Chargeback" =>
        \A tx \in DisputedEntries("Withdrawal"), c \in Clients :
            Chargeback(c, tx) =>
                LET amount == transactions[tx].amount[1]
                    before == Balances(accounts, c) IN
                /\ c \in DOMAIN accounts'
                /\ \A d \in DOMAIN accounts \ {c} : accounts'[d] = accounts[d]
                /\ accounts'[c].locked = Locked(accounts, c)
                /\ accounts'[c].held = before.held
                /\ IF before.available + amount <= DecimalMax
                   THEN /\ result' = "Ok"
                        /\ accounts'[c].available = before.available + amount
                   ELSE /\ result' = "FundsOverflow"
                        /\ accounts'[c].available = before.available]_vars

\* C11 witness: Deposit(a), an accepted Withdrawal, its Dispute and its
\* Chargeback, all of one client: available is a again, held 0, not locked
C11_Witness ==
    /\ steps = 4
    /\ op = "Chargeback"
    /\ result = "Ok"
    /\ \E c \in DOMAIN accounts, tx \in DOMAIN chargedback, d \in DOMAIN settled :
          /\ chargedback[tx] = c
          /\ tx \in DOMAIN settled
          /\ settled[tx] = c
          /\ transactions[tx].operation_type = "Withdrawal"
          /\ settled[d] = c
          /\ transactions[d].operation_type = "Deposit"
          /\ Available(c) = transactions[d].amount[1]
          /\ Held(c) = 0
          /\ ~accounts[c].locked

\* C12: an account becomes locked only in a step that applies a Chargeback
\* record to a Deposit entry under dispute and returns Ok; no other step locks.
C12_OnlyDepositChargebackLocks ==
    [][\A c \in DOMAIN accounts' :
        (accounts'[c].locked /\ ~Locked(accounts, c)) =>
            /\ op' = "Chargeback"
            /\ result' = "Ok"
            /\ \E tx \in DisputedEntries("Deposit") : Chargeback(c, tx)]_vars

\* C12 witness: the last record was the Chargeback of a Deposit entry, and it
\* locked the account it was applied to
C12_Witness ==
    /\ op = "Chargeback"
    /\ result = "Ok"
    /\ \E c \in DOMAIN accounts :
          /\ accounts[c].locked
          /\ DepositChargedBack(c)
          /\ \A tx \in DOMAIN transactions : ~transactions[tx].under_dispute

\* whether the registry entry of tx is not under dispute: never disputed, or
\* disputed and since resolved or charged back
NotUnderDispute(tx) ==
    \/ ~transactions[tx].already_disputed
    \/ ~transactions[tx].under_dispute

\* C13: a Resolve record naming a registered transaction that is not under
\* dispute returns ResolveOnNonDisputeOperation, one naming an absent
\* transaction id returns Ok; neither changes the accounts or the registry.
C13_ResolveOutsideDispute ==
    [][op' = "Resolve" =>
        \A c \in Clients, tx \in TxIds :
            Resolve(c, tx) =>
                /\ tx \notin DOMAIN transactions =>
                       /\ result' = "Ok"
                       /\ accounts' = accounts
                       /\ transactions' = transactions
                /\ (tx \in DOMAIN transactions /\ NotUnderDispute(tx)) =>
                       /\ result' = "ResolveOnNonDisputeOperation"
                       /\ accounts' = accounts
                       /\ transactions' = transactions]_vars

\* C13 witness: a Resolve record was refused while the registry holds an entry
\* whose dispute is over and an entry that was never disputed
C13_Witness ==
    /\ op = "Resolve"
    /\ result = "ResolveOnNonDisputeOperation"
    /\ \E tx \in DOMAIN transactions :
          transactions[tx].already_disputed /\ ~transactions[tx].under_dispute
    /\ \E tx \in DOMAIN transactions : ~transactions[tx].already_disputed

\* C14: a Dispute or Chargeback record naming an absent transaction id, and a
\* Chargeback record naming a registered transaction that is not under
\* dispute, return Ok and change neither the accounts (none is created) nor
\* the registry.
C14_NoOpOutsideDispute ==
    [][op' \in {"Dispute", "Chargeback"} =>
        \A c \in Clients, tx \in TxIds :
            /\ (tx \notin DOMAIN transactions /\ (Dispute(c, tx) \/ Chargeback(c, tx))) =>
                   /\ result' = "Ok"
                   /\ accounts' = accounts
                   /\ transactions' = transactions
            /\ (tx \in DOMAIN transactions /\ NotUnderDispute(tx) /\ Chargeback(c, tx)) =>
                   /\ result' = "Ok"
                   /\ accounts' = accounts
                   /\ transactions' = transactions]_vars

\* C14 witness: a Chargeback record that acted on nothing, with one id
\* registered and never disputed and another id absent
C14_Witness ==
    /\ op = "Chargeback"
    /\ result = "Ok"
    /\ chargedback = << >>
    /\ \E tx \in DOMAIN transactions : ~transactions[tx].already_disputed
    /\ \A tx \in DOMAIN transactions : ~transactions[tx].under_dispute
    /\ TxIds \ DOMAIN transactions # {}

C16_FailedOperationLeavesAccount ==
    [][IsErr(result') => \A c \in DOMAIN accounts : accounts'[c] = accounts[c]]_vars

\* ------------------------------------ streams of Deposits and Withdrawals
\* the amounts of valid records: present and non-negative
ValidAmounts == {Some(0), Some(1), Some(2)}

\* the amounts a Deposit or Withdrawal record may carry, valid or not
AnyAmounts == Amounts \cup ValidAmounts

DepositsAndWithdrawalsOfAnyAmount ==
    \/ \E c \in Clients, tx \in TxIds, a \in AnyAmounts : Deposit(c, tx, a)
    \/ \E c \in Clients, tx \in TxIds, a \in AnyAmounts : Withdrawal(c, tx, a)

AnyAmountSpec == Init /\ [][DepositsAndWithdrawalsOfAnyAmount]_vars

\* C17: a Deposit or Withdrawal record with no amount or a negative amount is
\* refused and changes neither the accounts nor the registry; when its id is
\* unused the error is MissingAmount, respectively NegativeAmount, and the id
\* stays unused.
C17_InvalidAmountRejected ==
    [][op' \in {"Deposit", "Withdrawal"} =>
        \A tx \in TxIds, a \in {x \in AnyAmounts : x = None \/ x[1] < 0} :
            \/ /\ IsErr(result')
               /\ accounts' = accounts
               /\ transactions' = transactions
               /\ tx \notin DOMAIN transactions =>
                      result' = IF a = None THEN "MissingAmount" ELSE "NegativeAmount"
            \/ \A c \in Clients : ~Deposit(c, tx, a) /\ ~Withdrawal(c, tx, a)]_vars

\* C17 witness: a record with a negative amount was refused while an id is
\* registered and another is unused, and the refused records before it, if
\* any, have created no second registry entry
C17_Witness ==
    /\ op \in {"Deposit", "Withdrawal"}
    /\ result = "NegativeAmount"
    /\ steps > 1
    /\ Cardinality(DOMAIN transactions) = 1
    /\ Cardinality(DOMAIN accounts) = 1

\* C20: a Deposit whose amount added to the account's available exceeds the
\* maximum leaves the account's available, held and locked unchanged and, the
\* account being unlocked, returns FundsOverflow; a Deposit that returns
\* FundsOverflow changes no account.
C20_DepositOverflowDetected ==
    [][op' = "Deposit" =>
        /\ result' = "FundsOverflow" => accounts' = accounts
        /\ \A c \in DOMAIN accounts, tx \in TxIds \ DOMAIN transactions, a \in Amounts :
              ( /\ a # None
                /\ a[1] >= 0
                /\ Available(c) + a[1] > DecimalMax
                /\ Deposit(c, tx, a) ) =>
                  /\ accounts'[c] = accounts[c]
                  /\ result' = IF accounts[c].locked THEN "AccountLocked"
                               ELSE "FundsOverflow"]_vars

\* C20 witness: a Deposit was refused with FundsOverflow on an account whose
\* available is within the largest amount of the maximum
C20_Witness ==
    /\ op = "Deposit"
    /\ result = "FundsOverflow"
    /\ \E c \in DOMAIN accounts :
          /\ ~accounts[c].locked
          /\ \E a \in Amounts : a # None /\ Available(c) + a[1] > DecimalMax

\* ------------------------------------------------ main's loop (main.rs)
\* Record::new
Record_new(type, client, tx, amount) ==
    [type |-> type, client |-> client, tx |-> tx, amount |-> amount]

\* the head of the loop body: the account entry of the record's client, and the
\* registry entry that a record carrying an amount gets when its id has none
MainEntries(type, client, tx, amount) ==
    [accs |-> get_account(accounts, client),
     txs |-> IF amount # None /\ tx \notin DOMAIN transactions
             THEN Insert(transactions, tx, Record_new(type, client, tx, amount))
             ELSE transactions]

\* the amount a Chargeback, Dispute or Resolve arm reads: that of the registry
\* entry of the record's id (the records of these three types carry no amount
\* of their own)
MainAmountOf(txs, tx) == IF tx \in DOMAIN txs THEN txs[tx].amount ELSE None

\* one iteration for the next record: the account operation r of its match arm
\* on the client's entry; the ? after the call returns a failure from main
MainIteration(type, client, e, r) ==
    /\ pc = "loop"
    /\ steps < MaxRecords
    /\ steps' = steps + 1
    /\ op' = type
    /\ transactions' = e.txs
    /\ accounts' = Insert(e.accs, client, r.acc)
    /\ result' = r.res
    /\ pc' = IF r.res = "Ok" THEN "loop" ELSE "returned_err"
    /\ UNCHANGED << settled, chargedback, snap, alone >>

MainDeposit(client, tx, amount) ==
    LET e == MainEntries("Deposit", client, tx, amount)
        r == IF amount # None THEN deposit(e.accs[client], amount[1])
             ELSE Done(e.accs[client]) IN
    MainIteration("Deposit", client, e, r)

MainWithdrawal(client, tx, amount) ==
    LET e == MainEntries("Withdrawal", client, tx, amount)
        r == IF amount # None THEN withdrawal(e.accs[client], amount[1])
             ELSE Done(e.accs[client]) IN
    MainIteration("Withdrawal", client, e, r)

MainChargeback(client, tx) ==
    LET e == MainEntries("Chargeback", client, tx, None)
        t == MainAmountOf(e.txs, tx)
        r == IF t # None THEN chargeback(e.accs[client], t[1])
             ELSE Done(e.accs[client]) IN
    MainIteration("Chargeback", client, e, r)

MainDispute(client, tx) ==
    LET e == MainEntries("Dispute", client, tx, None)
        t == MainAmountOf(e.txs, tx)
        r == IF t # None THEN dispute(e.accs[client], t[1])
             ELSE Done(e.accs[client]) IN
    MainIteration("Dispute", client, e, r)

MainResolve(client, tx) ==
    LET e == MainEntries("Resolve", client, tx, None)
        t == MainAmountOf(e.txs, tx)
        r == IF t # None THEN resolve(e.accs[client], t[1])
             ELSE Done(e.accs[client]) IN
    MainIteration("Resolve", client, e, r)

\* the input is exhausted: the accounts are serialized to stdout, main returns Ok
MainWrite ==
    /\ pc = "loop"
    /\ pc' = "written"
    /\ UNCHANGED << steps, accounts, transactions, op, result, settled, chargedback, snap, alone >>

MainNext ==
    \/ \E c \in Clients, tx \in TxIds, a \in Amounts : MainDeposit(c, tx, a)
    \/ \E c \in Clients, tx \in TxIds, a \in Amounts : MainWithdrawal(c, tx, a)
    \/ \E c \in Clients, tx \in TxIds : MainChargeback(c, tx)
    \/ \E c \in Clients, tx \in TxIds : MainDispute(c, tx)
    \/ \E c \in Clients, tx \in TxIds : MainResolve(c, tx)
    \/ MainWrite

MainSpec == Init /\ [][MainNext]_vars

\* C18: the run never stops on a record's error: after a record whose
\* operation failed, main is still in its loop or has written the snapshot.
C18_RunSurvivesRecordErrors == IsErr(result) => pc \in {"loop", "written"}

\* streams of valid Deposits and Withdrawals
DepositsAndWithdrawals ==
    \/ \E c \in Clients, tx \in TxIds, a \in ValidAmounts : Deposit(c, tx, a)
    \/ \E c \in Clients, tx \in TxIds, a \in ValidAmounts : Withdrawal(c, tx, a)

DepositWithdrawalSpec == Init /\ [][DepositsAndWithdrawals]_vars

\* C19: when the input holds only Deposit and Withdrawal records with present,
\* non-negative amounts, each account's available + held is the sum of its
\* accepted deposits minus the sum of its accepted withdrawals, it is never
\* negative, and held is 0.
C19_DepositsMinusWithdrawals ==
    \A c \in DOMAIN accounts :
        /\ Total(c) = SumAmounts(SettledOf(c, "Deposit"))
                      - SumAmounts(SettledOf(c, "Withdrawal"))
        /\ Total(c) >= 0
        /\ Held(c) = 0

\* C19 witness: a client with an accepted deposit and an accepted withdrawal
\* and money left, after a record that was refused
C19_Witness ==
    /\ IsErr(result)
    /\ \E c \in DOMAIN accounts :
          /\ SettledOf(c, "Deposit") # {}
          /\ \E w \in SettledOf(c, "Withdrawal") : transactions[w].amount[1] > 0
          /\ Total(c) > 0

\* ------------------------------------------- an Account on its own
\* the amounts the operations of an Account are called with
AccountAmounts == 0..DecimalMax

\* the client whose Account is exercised
TheClient == CHOOSE c \in Clients : TRUE

\* Account::new(client_id), in the map under its client id
AccountInit ==
    /\ pc = "loop"
    /\ steps = 0
    /\ accounts = Insert(<< >>, TheClient, Account_new(TheClient))
    /\ transactions = << >>
    /\ op = "None"
    /\ result = "Ok"
    /\ settled = << >>
    /\ chargedback = << >>
    /\ snap = None
    /\ alone = [c \in Clients |-> [accs |-> << >>, txs |-> << >>]]

\* one call of an operation on the Account: r is what it returns and leaves
Call(name, r) ==
    /\ op' = name
    /\ result' = r.res
    /\ accounts' = Insert(accounts, TheClient, r.acc)
    /\ UNCHANGED << pc, steps, transactions, settled, chargedback, snap, alone >>

CallDeposit(amount) == Call("deposit", deposit(accounts[TheClient], amount))
CallWithdrawal(amount) == Call("withdrawal", withdrawal(accounts[TheClient], amount))
CallDispute(amount) == Call("dispute", dispute(accounts[TheClient], amount))
CallResolve(amount) == Call("resolve", resolve(accounts[TheClient], amount))
CallChargeback(amount) == Call("chargeback", chargeback(accounts[TheClient], amount))
CallChargebackWithdrawal(amount) ==
    Call("chargeback_withdrawal", chargeback_withdrawal(accounts[TheClient], amount))

AccountNext ==
    \/ \E a \in AccountAmounts : CallDeposit(a)
    \/ \E a \in AccountAmounts : CallWithdrawal(a)
    \/ \E a \in AccountAmounts : CallDispute(a)
    \/ \E a \in AccountAmounts : CallResolve(a)
    \/ \E a \in AccountAmounts : CallChargeback(a)
    \/ \E a \in AccountAmounts : CallChargebackWithdrawal(a)

AccountSpec == AccountInit /\ [][AccountNext]_vars

\* the Account that AccountSpec exercises
TheAccount == accounts[TheClient]

\* C21: a chargeback that fails leaves available, held and locked as they
\* were, and its error is FundsOverflow; an account that a chargeback locks
\* has had an amount subtracted from held by a call that returned Ok.
C21_ChargebackLocksOnlyOnSuccess ==
    [][op' = "chargeback" =>
        /\ IsErr(result') => (result' = "FundsOverflow" /\ TheAccount' = TheAccount)
        /\ (TheAccount'.locked /\ ~TheAccount.locked) =>
              /\ result' = "Ok"
              /\ \E a \in AccountAmounts : TheAccount'.held = TheAccount.held - a]_vars

\* C21 witness: a chargeback on an unlocked account returned FundsOverflow, and
\* the account is still unlocked
C21_Witness ==
    /\ op = "chargeback"
    /\ result = "FundsOverflow"
    /\ ~TheAccount.locked
    /\ TheAccount.held < 0

\* C22: a Dispute record accepted for a Withdrawal entry sets both flags of
\* the entry and changes no account; a later step that ends the dispute of an
\* accepted Withdrawal entry changes an account only if it is a Chargeback.
C22_WithdrawalDisputeMovesNoFunds ==
    [][/\ op' = "Dispute" =>
            \A tx \in DOMAIN transactions, c \in Clients :
                ( /\ transactions[tx].operation_type = "Withdrawal"
                  /\ ~transactions[tx].already_disputed
                  /\ Dispute(c, tx) ) =>
                    /\ result' = "Ok"
                    /\ transactions'[tx].under_dispute
                    /\ transactions'[tx].already_disputed
                    /\ accounts' = accounts
       /\ \A tx \in DisputedEntries("Withdrawal") \cap DOMAIN settled :
            (~transactions'[tx].under_dispute /\ accounts' # accounts) =>
                op' = "Chargeback"]_vars

\* the place of a registry entry in its life: Recorded, Disputed, Settled;
\* under_dispute without already_disputed is none of them
Recorded(t) == ~t.under_dispute /\ ~t.already_disputed
Disputed(t) == t.under_dispute /\ t.already_disputed
Settled(t) == ~t.under_dispute /\ t.already_disputed

\* C23: a new registry entry is Recorded and no entry is ever under dispute
\* without already_disputed; a step leaves an entry where it is or
\* takes it from Recorded to Disputed or from Disputed to Settled; a Settled
\* entry keeps its flags under every later record, and no entry is removed.
C23_EntryMovesForward ==
    [][transactions' # transactions =>
        /\ DOMAIN transactions \subseteq DOMAIN transactions'
        /\ \A tx \in DOMAIN transactions' \ DOMAIN transactions : Recorded(transactions'[tx])
        /\ \A tx \in DOMAIN transactions' : ~(/\ transactions'[tx].under_dispute
                                               /\ ~transactions'[tx].already_disputed)
        /\ \A tx \in DOMAIN transactions :
             LET t == transactions[tx]
                 u == transactions'[tx] IN
             /\ Recorded(t) => Recorded(u) \/ Disputed(u)
             /\ Disputed(t) => Disputed(u) \/ Settled(u)
             /\ Settled(t) => u = t]_vars

\* C23 witness: after a Dispute record, one entry is Settled and another is
\* Disputed
C23_Witness ==
    /\ op = "Dispute"
    /\ \E tx \in DOMAIN transactions : Settled(transactions[tx])
    /\ \E tx \in DOMAIN transactions : Disputed(transactions[tx])

\* C24: a registry entry, once created, is never removed and keeps its amount
\* and operation_type under every later record.
C24_EntryAmountAndTypeFixed ==
    [][transactions' # transactions =>
        \A tx \in DOMAIN transactions :
            /\ tx \in DOMAIN transactions'
            /\ transactions'[tx].amount = transactions[tx].amount
            /\ transactions'[tx].operation_type = transactions[tx].operation_type]_vars

\* C24 witness: an entry has been disputed and settled, and a Deposit or
\* Withdrawal record reusing a registered id has just been refused
C24_Witness ==
    /\ op \in {"Deposit", "Withdrawal"}
    /\ result = "TransactionIdAlreadyUsed"
    /\ \E tx \in DOMAIN transactions : Settled(transactions[tx])

C26_DepositDisputeFreezes ==
    [][op' = "Dispute" =>
        \A tx \in DOMAIN transactions :
            (transactions[tx].operation_type = "Deposit" /\ ~transactions[tx].already_disputed) =>
                \A c \in Clients :
                    Dispute(c, tx) =>
                        LET amount == transactions[tx].amount[1]
                            before == Balances(accounts, c) IN
                        /\ result' = "Ok" =>
                              /\ before.available >= amount
                              /\ accounts'[c].available = before.available - amount
                              /\ accounts'[c].held = before.held + amount
                              /\ accounts'[c].locked = Locked(accounts, c)
                        /\ (before.available >= amount /\ before.held + amount <= DecimalMax)
                              => result' = "Ok"
                        /\ before.available < amount =>
                              /\ result' = "InsufficientFunds"
                              /\ Balances(accounts', c) = before
                              /\ Locked(accounts', c) = Locked(accounts, c)
                        /\ \A d \in DOMAIN accounts \ {c} : accounts'[d] = accounts[d]]_vars

\* C26 witness: a Dispute of a Deposit was refused with InsufficientFunds on an
\* account that has spent part of the deposit
C26_Witness ==
    /\ op = "Dispute"
    /\ result = "InsufficientFunds"
    /\ \E c \in DOMAIN accounts :
          /\ Available(c) > 0
          /\ Held(c) = 0
          /\ SettledOf(c, "Withdrawal") # {}
          /\ \E tx \in SettledOf(c, "Deposit") : transactions[tx].amount[1] > Available(c)

\* C27: a Resolve record for a Deposit entry t under dispute clears the
\* under_dispute flag of t and changes nothing else in the registry, so the
\* other disputed entries stay under dispute; when it returns Ok, exactly t's
\* recorded amount has moved from held to available, the rest stays held; it
\* returns Ok whenever both checked operations are representable.
C27_ResolveReleasesOnlyItsOwn ==
    [][op' = "Resolve" =>
        \A tx \in DisputedEntries("Deposit"), c \in Clients :
            Resolve(c, tx) =>
                LET amount == transactions[tx].amount[1]
                    before == Balances(accounts, c) IN
                /\ transactions' = [transactions EXCEPT ![tx].under_dispute = FALSE]
                /\ result' = "Ok" =>
                      /\ accounts'[c].available = before.available + amount
                      /\ accounts'[c].held = before.held - amount
                      /\ accounts'[c].locked = Locked(accounts, c)
                /\ ( /\ before.available + amount <= DecimalMax
                     /\ before.held - amount >= 0 - DecimalMax ) => result' = "Ok"
                /\ \A d \in DOMAIN accounts \ {c} : accounts'[d] = accounts[d]]_vars

\* C27 witness: a client had two Deposits under dispute and one was resolved:
\* the other is still under dispute and exactly its amount is still held
C27_Witness ==
    /\ op = "Resolve"
    /\ result = "Ok"
    /\ \E c \in DOMAIN accounts : \E t, u \in SettledOf(c, "Deposit") :
          /\ Settled(transactions[t])
          /\ Disputed(transactions[u])
          /\ Held(c) = transactions[u].amount[1]
          /\ Available(c) = transactions[t].amount[1]

\* --------------------------- one shared manager and one manager per client
\* parse_entry as a function of the manager's two maps and the record: the
\* maps it leaves and what it returns
parse_entry(accs, txs, type, client, tx, amount) ==
    LET Ret(a, t, r) == [accs |-> a, txs |-> t, res |-> r]
        got == get_account(accs, client)
        OnOp(t, r) == Ret(Insert(got, client, r.acc), t, r.res) IN
    CASE type \in {"Deposit", "Withdrawal"} ->
            IF contains_key(txs, tx) THEN Ret(accs, txs, "TransactionIdAlreadyUsed")
            ELSE IF amount = None THEN Ret(accs, txs, "MissingAmount")
            ELSE IF is_sign_negative(amount[1]) THEN Ret(accs, txs, "NegativeAmount")
            ELSE OnOp(Insert(txs, tx, TransactionRecord_new(type, amount)),
                      IF type = "Deposit" THEN deposit(got[client], amount[1])
                      ELSE withdrawal(got[client], amount[1]))
      [] type = "Chargeback" ->
            IF tx \in DOMAIN txs /\ txs[tx].under_dispute /\ txs[tx].amount # None
            THEN LET t2 == [txs EXCEPT ![tx].under_dispute = FALSE] IN
                 IF txs[tx].operation_type = "Deposit"
                 THEN OnOp(t2, chargeback(got[client], txs[tx].amount[1]))
                 ELSE IF txs[tx].operation_type = "Withdrawal"
                 THEN OnOp(t2, chargeback_withdrawal(got[client], txs[tx].amount[1]))
                 ELSE Ret(accs, t2, "Ok")
            ELSE Ret(accs, txs, "Ok")
      [] type = "Dispute" ->
            IF tx \in DOMAIN txs /\ may_dispute(txs[tx])
            THEN LET t2 == [txs EXCEPT ![tx].under_dispute = TRUE,
                                       ![tx].already_disputed = TRUE] IN
                 IF txs[tx].operation_type = "Deposit" /\ txs[tx].amount # None
                 THEN OnOp(t2, dispute(got[client], txs[tx].amount[1]))
                 ELSE Ret(accs, t2, "Ok")
            ELSE Ret(accs, txs, "Ok")
      [] type = "Resolve" ->
            IF tx \notin DOMAIN txs THEN Ret(accs, txs, "Ok")
            ELSE IF ~txs[tx].under_dispute
            THEN Ret(accs, txs, "ResolveOnNonDisputeOperation")
            ELSE LET t2 == [txs EXCEPT ![tx].under_dispute = FALSE] IN
                 IF txs[tx].amount # None
                 THEN OnOp(t2, resolve(got[client], txs[tx].amount[1]))
                 ELSE Ret(accs, t2, "Ok")

\* the next record goes to the shared manager and to the manager that sees
\* the records of its client only
Feed(type, client, tx, amount) ==
    LET r == parse_entry(accounts, transactions, type, client, tx, amount)
        a == parse_entry(alone[client].accs, alone[client].txs, type, client, tx, amount) IN
    /\ pc = "loop"
    /\ steps < MaxRecords
    /\ steps' = steps + 1
    /\ op' = type
    /\ accounts' = r.accs
    /\ transactions' = r.txs
    /\ result' = r.res
    /\ alone' = [alone EXCEPT ![client] = [accs |-> a.accs, txs |-> a.txs]]
    /\ UNCHANGED << pc, settled, chargedback, snap >>

FeedNext ==
    \/ \E c \in Clients, tx \in TxIds, a \in Amounts : Feed("Deposit", c, tx, a)
    \/ \E c \in Clients, tx \in TxIds, a \in Amounts : Feed("Withdrawal", c, tx, a)
    \/ \E c \in Clients, tx \in TxIds : Feed("Chargeback", c, tx, None)
    \/ \E c \in Clients, tx \in TxIds : Feed("Dispute", c, tx, None)
    \/ \E c \in Clients, tx \in TxIds : Feed("Resolve", c, tx, None)

InterleavedSpec == Init /\ [][FeedNext]_vars

\* parse_entry as a function and the five arms as actions are the same steps
ParseEntryIsTheArms ==
    [][\A c \in Clients, tx \in TxIds :
        /\ \A a \in Amounts :
             /\ Deposit(c, tx, a) =>
                  LET r == parse_entry(accounts, transactions, "Deposit", c, tx, a) IN
                  accounts' = r.accs /\ transactions' = r.txs /\ result' = r.res
             /\ Withdrawal(c, tx, a) =>
                  LET r == parse_entry(accounts, transactions, "Withdrawal", c, tx, a) IN
                  accounts' = r.accs /\ transactions' = r.txs /\ result' = r.res
        /\ Chargeback(c, tx) =>
             LET r == parse_entry(accounts, transactions, "Chargeback", c, tx, None) IN
             accounts' = r.accs /\ transactions' = r.txs /\ result' = r.res
        /\ Dispute(c, tx) =>
             LET r == parse_entry(accounts, transactions, "Dispute", c, tx, None) IN
             accounts' = r.accs /\ transactions' = r.txs /\ result' = r.res
        /\ Resolve(c, tx) =>
             LET r == parse_entry(accounts, transactions, "Resolve", c, tx, None) IN
             accounts' = r.accs /\ transactions' = r.txs /\ result' = r.res]_vars

\* no transaction id was registered by the records of two clients
IdsNotShared ==
    \A c, d \in Clients : c # d => DOMAIN alone[c].txs \cap DOMAIN alone[d].txs = {}

\* C28: with the records of several clients interleaved, each client has the
\* balances and lock that its own records alone give it (the clients using
\* different transaction ids).
C28_ClientsDoNotInterfere ==
    IdsNotShared =>
        \A c \in Clients :
            /\ Balances(accounts, c) = Balances(alone[c].accs, c)
            /\ Locked(accounts, c) = Locked(alone[c].accs, c)

\* the accepted Deposits of client c whose entry is under dispute
DepositsUnderDispute(c) ==
    {tx \in SettledOf(c, "Deposit") : transactions[tx].under_dispute}

\* C29: each account's held is the sum of the recorded amounts of its client's
\* Deposit entries that are under dispute.
C29_HeldIsDisputedDeposits ==
    \A c \in DOMAIN accounts : Held(c) = SumAmounts(DepositsUnderDispute(c))

\* C30: a Dispute, Resolve or Chargeback record that names a transaction
\* created by another client changes neither the registry nor any account.
C30_ForeignRecordChangesNothing ==
    [][op' \in {"Dispute", "Resolve", "Chargeback"} =>
        \A tx \in DOMAIN settled, c \in Clients :
            ( /\ c # settled[tx]
              /\ Dispute(c, tx) \/ Resolve(c, tx) \/ Chargeback(c, tx) ) =>
                /\ accounts' = accounts
                /\ transactions' = transactions]_vars

\* C31: the set of accounts grows only on a Deposit or Withdrawal record that
\* passed validation (the record that registers its transaction id); a
\* Dispute, Resolve or Chargeback record never adds an account.
C31_OnlyValidDepositOrWithdrawalAddsAccount ==
    [][DOMAIN accounts' # DOMAIN accounts =>
        /\ op' \in {"Deposit", "Withdrawal"}
        /\ transactions' # transactions]_vars

\* C32: in every state reached through parse_entry every account's available
\* is at least zero.
C32_AvailableNeverNegative ==
    \A c \in DOMAIN accounts : accounts[c].available >= 0

\* a Dispute was refused for lack of funds on an account that an accepted
\* Withdrawal had emptied
C32_Witness ==
    /\ op = "Dispute"
    /\ result = "InsufficientFunds"
    /\ \E c \in DOMAIN accounts :
          /\ accounts[c].available = 0
          /\ \E tx \in SettledOf(c, "Withdrawal") : transactions[tx].amount[1] > 0

====
